---- MODULE Spec2Model ----
(***************************************************************************)
(* A model of the pattern block (core/block) editor component:             *)
(*   - the recursion guard around the pattern block's edit component       *)
(*     (ReusableBlockEditRecursionWrapper, useHasRecursion and             *)
(*     RecursionProvider), as a render pass over a graph of patterns;      *)
(*   - the edit-mode propagation over the pattern's inner blocks           *)
(*     (setBlockEditMode and the effect that calls it);                    *)
(*   - useInferredLayout and resetContent of the same component;           *)
(* and of two controls of the block editor: the grid item movers           *)
(* (GridItemMovers) and the background size controls                       *)
(* (BackgroundSizeControls).                                               *)
(***************************************************************************)
EXTENDS Integers, Sequences, FiniteSets, TLC

(***************************************************************************)
(* Bounds of the model.                                                    *)
(***************************************************************************)
\* The total number of pattern blocks contained in all patterns together.
MaxRefs == 3
\* The number of inner blocks below the pattern block whose modes are synced.
MaxBlocks == 3
\* The number of blocks of the pattern that useInferredLayout looks at.
MaxLayoutBlocks == 2
\* The number of changes kept in the model of the editor's change history.
MaxChanges == 5
\* The largest row or column number of a grid.
MaxGrid == 3

\* The wp_block posts (pattern refs) of the model.
Templates == {"A", "B", "C"}

VARIABLES
    \* --- the recursion guard -------------------------------------------
    store,      \* ref -> what useEntityRecord / useEntityBlockEditor return
    pc,         \* "idle", "mount", "render", "unmount", "done", "unmounted"
    root,       \* the ref of the pattern block the render pass starts at
    stack,      \* the pattern blocks being rendered inside one another
    path,       \* the refs provided by the enclosing RecursionProviders
    log,        \* history of this render pass: the guard's calls and results
    prevAbandoned,  \* history: the previous render pass was unmounted midway
    \* --- the edit-mode propagation -------------------------------------
    tree,       \* the inner blocks of the pattern block, by clientId
    editingMode,    \* getBlockEditingMode( patternClientId )
    hasPatternOverridesSource,  \* 'core/pattern-overrides' is registered
    mode,       \* the mode argument of the last setBlockEditMode call that returned
    blockEditingModes,  \* clientId -> editing mode (block editor store)
    writes,     \* history: the setEditMode calls of the last propagation
    caller,     \* history: who made the last setBlockEditMode call
    threw,      \* the last setBlockEditMode call raised a TypeError
    pending,    \* the pattern blocks whose sync effect is yet to run
    \* --- useInferredLayout and resetContent ----------------------------
    initialInferredAlignmentRef,    \* useRef(): .current
    memoDeps,   \* useMemo: the [ blocks, parentLayout ] of the last computation
    memoValue,  \* useMemo: the value returned by the last call
    firstInferred,  \* history: what the first non-empty block list implied
    content,    \* attributes.content of the pattern block
    changes,    \* the editor's changes of content, each persistent or not
    contentBefore,  \* history: attributes.content before the last operation
    resetCalls, \* history: the calls made by the last resetContent
    \* --- the grid item movers ------------------------------------------
    gridLayout,     \* the layout prop of GridItemMovers (the grid item)
    gridParentLayout,   \* the parentLayout prop (the grid)
    movedTo,    \* the cell of the last moveBlocksToPosition call
    gridBefore, \* history: the layout before the last click
    clicked,    \* history: the mover button clicked last
    startedInside,  \* history: the item was inside the grid at the start
    \* --- the background size controls ----------------------------------
    style,      \* style.background of BackgroundSizeControls
    inheritedValue, \* inheritedValue.background
    defaultValues,  \* defaultValues.backgroundSize
    styleBefore,    \* history: style before the last change
    lastChange  \* history: the control used last and the value it passed

guardVars == <<store, pc, root, stack, path, log, prevAbandoned>>
modeVars == <<tree, editingMode, hasPatternOverridesSource, mode,
             blockEditingModes, writes, caller, threw, pending>>
editVars == <<initialInferredAlignmentRef, memoDeps, memoValue, firstInferred>>
resetVars == <<content, changes, contentBefore, resetCalls>>
gridVars == <<gridLayout, gridParentLayout, movedTo, gridBefore, clicked,
             startedInside>>
bgVars == <<style, inheritedValue, defaultValues, styleBefore, lastChange>>
uiVars == <<editVars, resetVars, gridVars, bgVars>>
vars == <<guardVars, modeVars, uiVars>>

Last(s) == s[Len(s)]
Front(s) == SubSeq(s, 1, Len(s) - 1)

RECURSIVE SumLen(_, _)
SumLen(f, S) ==
    IF S = {} THEN 0
    ELSE LET t == CHOOSE x \in S : TRUE
         IN Len(f[t]) + SumLen(f, S \ {t})

SeqsUpTo(S, n) == UNION {[1..k -> S] : k \in 0..n}

(***************************************************************************)
(* The recursion guard.                                                    *)
(***************************************************************************)

\* useHasRecursion( uniqueId ): is uniqueId among the ids provided by the
\* enclosing RecursionProviders (isActive of the guard).
useHasRecursion(uniqueId) == uniqueId \in path

\* <RecursionProvider uniqueId>: the ids its children see (enter's insertion).
RecursionProvider(uniqueId) == path \cup {uniqueId}

\* Leaving the scope of <RecursionProvider uniqueId> (exit's removal).
LeaveProvider(uniqueId) == path \ {uniqueId}

\* The refs of the enter calls that returned true in this render pass.
EverProvided == {log[i].id : i \in {j \in 1..Len(log) : log[j].op = "enter" /\ log[j].result}}

hasAlreadyRenderedNever(ref) == FALSE
hasAlreadyRenderedGlobal(ref) == ref \in EverProvided

\* const hasAlreadyRendered = useHasRecursion( ref );
hasAlreadyRendered(ref) == useHasRecursion(ref)

uniqueIdFixed(ref) == "A"

\* <RecursionProvider uniqueId={ ref }>
uniqueId(ref) == ref

\* const isMissing = hasResolved && ! record;
isMissing(ref) == store[ref].hasResolved /\ ~store[ref].record

\* The deletion warning is decided after the spinner, on the record alone.
ReusableBlockEditMissingLast(ref) ==
    LET children0 == "null"
        children1 == IF ~store[ref].hasResolved THEN "Spinner" ELSE children0
        children2 == IF ~store[ref].record THEN "Warning" ELSE children1
    IN  IF children2 = "null" THEN "innerBlocks" ELSE children2

\* What ReusableBlockEdit renders inside the block wrapper: the deletion
\* warning, the spinner, or (children === null) the inner blocks.
ReusableBlockEdit(ref) ==
    LET children0 == "null"
        children1 == IF isMissing(ref) THEN "Warning" ELSE children0
        children2 == IF ~store[ref].hasResolved THEN "Spinner" ELSE children1
    IN  IF children2 = "null" THEN "innerBlocks" ELSE children2

\* The pattern blocks rendered below a pattern block with this ref.
Rendered(ref) ==
    IF ReusableBlockEdit(ref) = "innerBlocks" THEN store[ref].blocks ELSE <<>>

StackRefs == {stack[i].ref : i \in 1..Len(stack)}

Top == Last(stack)

\* The parent moves on to its next inner block.
Advance(s) ==
    IF s = <<>> THEN s
    ELSE [s EXCEPT ![Len(s)].next = @ + 1]

GuardInit ==
    /\ \E b \in [Templates -> SeqsUpTo(Templates, MaxRefs)] :
         /\ SumLen(b, Templates) <= MaxRefs
         /\ \E hr \in [Templates -> BOOLEAN], rec \in [Templates -> BOOLEAN] :
              /\ \A t \in Templates : ~(hr[t] /\ rec[t]) => b[t] = <<>>
              /\ store = [t \in Templates |->
                            [hasResolved |-> hr[t], record |-> rec[t], blocks |-> b[t]]]
    /\ pc = "idle"
    /\ root = "A"
    /\ stack = <<>>
    /\ path = {}
    /\ log = <<>>
    /\ prevAbandoned = FALSE

\* A pattern block with ref t is mounted in the editor canvas.
StartRender(t) ==
    /\ pc \in {"idle", "done", "unmounted"}
    /\ pc' = "mount"
    /\ root' = t
    /\ log' = <<>>
    /\ prevAbandoned' = (pc = "unmounted")
    /\ UNCHANGED <<store, stack, path>>

\* The wrapper also ends the scope of ref's provider when it refuses ref.
WrapperExitsOnRefusal ==
    /\ \/ pc = "mount"
       \/ pc = "render" /\ stack # <<>> /\ Top.next <= Len(Rendered(Top.ref))
    /\ LET ref == IF pc = "mount" THEN root ELSE Rendered(Top.ref)[Top.next]
           call == [op |-> "enter", id |-> ref, before |-> path,
                    ancestors |-> StackRefs]
       IN  IF hasAlreadyRendered(ref)
           THEN /\ log' = Append(log, call @@ [result |-> FALSE,
                                               shown |-> "RecursionWarning"])
                /\ stack' = Advance(stack)
                /\ path' = LeaveProvider(ref)
                /\ pc' = IF pc = "mount" THEN "done" ELSE pc
           ELSE /\ log' = Append(log, call @@ [result |-> TRUE,
                                               shown |-> ReusableBlockEdit(ref)])
                /\ path' = RecursionProvider(uniqueId(ref))
                /\ stack' = Append(Advance(stack),
                                   [ref |-> ref, provided |-> uniqueId(ref), next |-> 1])
                /\ pc' = "render"
    /\ UNCHANGED <<store, root, prevAbandoned>>

\* One render of the wrapper, for the next pattern block in document order.
ReusableBlockEditRecursionWrapper ==
    /\ \/ pc = "mount"
       \/ pc = "render" /\ stack # <<>> /\ Top.next <= Len(Rendered(Top.ref))
    /\ LET ref == IF pc = "mount" THEN root ELSE Rendered(Top.ref)[Top.next]
           call == [op |-> "enter", id |-> ref, before |-> path,
                    ancestors |-> StackRefs]
       IN  IF hasAlreadyRendered(ref)
           THEN \* return <RecursionWarning />;
                /\ log' = Append(log, call @@ [result |-> FALSE,
                                               shown |-> "RecursionWarning"])
                /\ stack' = Advance(stack)
                /\ path' = path
                /\ pc' = IF pc = "mount" THEN "done" ELSE pc
           ELSE \* <RecursionProvider><ReusableBlockEdit /></RecursionProvider>
                /\ log' = Append(log, call @@ [result |-> TRUE,
                                               shown |-> ReusableBlockEdit(ref)])
                /\ path' = RecursionProvider(uniqueId(ref))
                /\ stack' = Append(Advance(stack),
                                   [ref |-> ref, provided |-> uniqueId(ref), next |-> 1])
                /\ pc' = "render"
    /\ UNCHANGED <<store, root, prevAbandoned>>

\* The render leaves the subtree of the innermost provider: all its inner
\* blocks are rendered, or the pass is being torn down.
ExitProvider ==
    /\ stack # <<>>
    /\ \/ pc = "render" /\ Top.next > Len(Rendered(Top.ref))
       \/ pc = "unmount"
    /\ path' = LeaveProvider(Top.provided)
    /\ stack' = Front(stack)
    /\ log' = Append(log, [op |-> "exit", id |-> Top.provided, before |-> path,
                           ancestors |-> StackRefs \ {Top.ref},
                           result |-> TRUE, shown |-> "none"])
    /\ pc' = IF Len(stack) > 1 THEN pc
             ELSE IF pc = "unmount" THEN "unmounted" ELSE "done"
    /\ UNCHANGED <<store, root, prevAbandoned>>

\* The render pass is abandoned midway (the block is unmounted, or a render
\* threw): nothing further is rendered and the providers are torn down.
Unmount ==
    /\ pc = "render"
    /\ stack # <<>>
    /\ pc' = "unmount"
    /\ UNCHANGED <<store, root, stack, path, log, prevAbandoned>>

(***************************************************************************)
(* The edit-mode propagation.                                              *)
(***************************************************************************)

\* import { name as patternBlockName } from './index';
patternBlockName == "core/block"

BlockNames == {patternBlockName, "core/paragraph"}

\* The block editing modes, and 'undefined' for an argument not passed.
EditModes == {"default", "contentOnly", "disabled"}
ModeArgs == EditModes \cup {"undefined"}

\* JavaScript's truthiness of a mode argument.
Truthy(m) == m \notin {"undefined", ""}

\* The inner block trees of the pattern block: block c (clientId c) has its
\* parent among the earlier blocks, 0 being the pattern block itself.
TreesOf(n) ==
    {t \in [1..n -> [parent : 0..(n - 1), name : BlockNames, overridable : BOOLEAN]] :
        \A c \in 1..n : t[c].parent < c}

Trees == UNION {TreesOf(n) : n \in 0..MaxBlocks}

Blocks == 1..Len(tree)

RECURSIVE SortedSeq(_)
SortedSeq(S) ==
    IF S = {} THEN <<>>
    ELSE LET c == CHOOSE x \in S : \A y \in S : x <= y
         IN <<c>> \o SortedSeq(S \ {c})

\* block.innerBlocks (getBlocks( clientId ) for the pattern block, 0).
innerBlocks(c) == SortedSeq({d \in Blocks : tree[d].parent = c})

\* isOverridableBlock( block ), the classifier of @wordpress/patterns.
isOverridableBlock(block) == tree[block].overridable

\* mode || isOverridableBlock( block ) ? 'contentOnly' : 'disabled'
RECURSIVE setBlockEditModeNoParens(_, _)
setBlockEditModeNoParens(blocks, m) ==
    IF blocks = <<>> THEN <<>>
    ELSE LET block == Head(blocks)
             editMode == IF Truthy(m) \/ isOverridableBlock(block)
                         THEN "contentOnly" ELSE "disabled"
         IN  <<[clientId |-> block, editMode |-> editMode]>>
             \o setBlockEditModeNoParens(innerBlocks(block),
                    IF tree[block].name = patternBlockName THEN "disabled" ELSE m)
             \o setBlockEditModeNoParens(Tail(blocks), m)

\* The inner blocks get the block's own editMode instead of mode.
RECURSIVE setBlockEditModeInherit(_, _)
setBlockEditModeInherit(blocks, m) ==
    IF blocks = <<>> THEN <<>>
    ELSE LET block == Head(blocks)
             editMode == IF Truthy(m) THEN m
                         ELSE IF isOverridableBlock(block)
                              THEN "contentOnly" ELSE "disabled"
         IN  <<[clientId |-> block, editMode |-> editMode]>>
             \o setBlockEditModeInherit(innerBlocks(block),
                    IF tree[block].name = patternBlockName THEN "disabled" ELSE editMode)
             \o setBlockEditModeInherit(Tail(blocks), m)

\* Nested patterns are not disabled: the inner blocks always get mode.
RECURSIVE setBlockEditModeNoNested(_, _)
setBlockEditModeNoNested(blocks, m) ==
    IF blocks = <<>> THEN <<>>
    ELSE LET block == Head(blocks)
             editMode == IF Truthy(m) THEN m
                         ELSE IF isOverridableBlock(block)
                              THEN "contentOnly" ELSE "disabled"
         IN  <<[clientId |-> block, editMode |-> editMode]>>
             \o setBlockEditModeNoNested(innerBlocks(block), m)
             \o setBlockEditModeNoNested(Tail(blocks), m)

\* setEditMode is called after the recursion into the inner blocks.
RECURSIVE setBlockEditModePostOrder(_, _)
setBlockEditModePostOrder(blocks, m) ==
    IF blocks = <<>> THEN <<>>
    ELSE LET block == Head(blocks)
             editMode == IF Truthy(m) THEN m
                         ELSE IF isOverridableBlock(block)
                              THEN "contentOnly" ELSE "disabled"
         IN  setBlockEditModePostOrder(innerBlocks(block),
                    IF tree[block].name = patternBlockName THEN "disabled" ELSE m)
             \o <<[clientId |-> block, editMode |-> editMode]>>
             \o setBlockEditModePostOrder(Tail(blocks), m)

\* function setBlockEditMode( setEditMode, blocks, mode ): the setEditMode
\* calls it makes, in order.
RECURSIVE setBlockEditMode(_, _)
setBlockEditMode(blocks, m) ==
    IF blocks = <<>> THEN <<>>
    ELSE LET block == Head(blocks)
             editMode == IF Truthy(m) THEN m
                         ELSE IF isOverridableBlock(block)
                              THEN "contentOnly" ELSE "disabled"
         IN  <<[clientId |-> block, editMode |-> editMode]>>
             \o setBlockEditMode(innerBlocks(block),
                    IF tree[block].name = patternBlockName THEN "disabled" ELSE m)
             \o setBlockEditMode(Tail(blocks), m)

\* setBlockEditingMode( clientId, mode ) of the block editor store, for each
\* call in turn.
RECURSIVE setEditMode(_, _)
setEditMode(registry, calls) ==
    IF calls = <<>> THEN registry
    ELSE setEditMode([registry EXCEPT ![Head(calls).clientId] = Head(calls).editMode],
                     Tail(calls))

\* editingMode === 'disabled' && ! hasPatternOverridesSource
syncModeAnd ==
    IF editingMode = "disabled" /\ ~hasPatternOverridesSource
    THEN "disabled" ELSE "undefined"

\* The mode the effect passes: 'disabled' if the pattern itself is disabled.
syncMode ==
    IF editingMode = "disabled" \/ ~hasPatternOverridesSource
    THEN "disabled" ELSE "undefined"

ModeIdle ==
    /\ tree = <<>>
    /\ editingMode = "default"
    /\ hasPatternOverridesSource = FALSE
    /\ mode = "none"
    /\ blockEditingModes = <<>>
    /\ writes = <<>>
    /\ caller = "none"
    /\ threw = FALSE
    /\ pending = {}

GuardIdle ==
    /\ store = [t \in Templates |->
                  [hasResolved |-> FALSE, record |-> FALSE, blocks |-> <<>>]]
    /\ pc = "idle"
    /\ root = "A"
    /\ stack = <<>>
    /\ path = {}
    /\ log = <<>>
    /\ prevAbandoned = FALSE

ModeInit ==
    /\ tree \in Trees
    /\ editingMode \in EditModes
    /\ hasPatternOverridesSource \in BOOLEAN
    /\ mode = "none"
    /\ blockEditingModes = [c \in Blocks |-> "default"]
    /\ writes = <<>>
    /\ caller = "none"
    /\ threw = FALSE
    /\ pending = {}

\* A call setBlockEditMode( setBlockEditingMode, innerBlocks, m ).
Propagate(m) ==
    /\ mode' = m
    /\ writes' = setBlockEditMode(innerBlocks(0), m)
    /\ blockEditingModes' = setEditMode(blockEditingModes, writes')
    /\ UNCHANGED <<tree, editingMode, hasPatternOverridesSource>>

\* useEffect: sync the editing mode of the pattern block with the inner blocks.
SyncEffect == Propagate(syncMode)

\* A call setBlockEditMode( setEditMode, undefined, mode ), whatever the
\* mode: blocks.forEach is evaluated on undefined, which raises a TypeError
\* before any setEditMode call.
PropagateAbsent ==
    /\ writes' = <<>>
    /\ threw' = TRUE
    /\ UNCHANGED <<tree, editingMode, hasPatternOverridesSource, mode,
                   blockEditingModes>>

\* The pattern blocks mounted in the editor: the pattern block itself (0)
\* and the pattern blocks nested in it, each with its own sync effect.
PatternBlocks == {0} \cup {c \in Blocks : tree[c].name = patternBlockName}

\* getBlockEditingMode( clientId ) of a mounted pattern block: the pattern
\* block's own mode, and for a nested one its entry in the registry.
getBlockEditingMode(p) ==
    IF p = 0 THEN editingMode ELSE blockEditingModes[p]

\* The mode the effect of pattern block p passes.
syncModeOf(p) ==
    IF getBlockEditingMode(p) = "disabled" \/ ~hasPatternOverridesSource
    THEN "disabled" ELSE "undefined"

\* The pattern block and its nested pattern blocks have just been mounted.
SyncInit ==
    /\ tree \in Trees
    /\ editingMode \in EditModes
    /\ hasPatternOverridesSource \in BOOLEAN
    /\ mode = "none"
    /\ blockEditingModes = [c \in Blocks |-> "default"]
    /\ writes = <<>>
    /\ caller = "none"
    /\ threw = FALSE
    /\ pending = PatternBlocks

\* The sync effect of pattern block p runs; the effects of the nested
\* pattern blocks whose editing mode it changed are due again.
RunEffect(p) ==
    /\ p \in pending
    /\ mode' = syncModeOf(p)
    /\ writes' = setBlockEditMode(innerBlocks(p), mode')
    /\ blockEditingModes' = setEditMode(blockEditingModes, writes')
    /\ pending' = (pending \ {p}) \cup
                    {n \in PatternBlocks \ {0} :
                        blockEditingModes'[n] # blockEditingModes[n]}
    /\ caller' = "effect"
    /\ threw' = FALSE
    /\ UNCHANGED <<tree, editingMode, hasPatternOverridesSource>>

\* The editing mode of the pattern block itself changes, so its effect is
\* due again.
ChangeEditingMode(m) ==
    /\ m # editingMode
    /\ editingMode' = m
    /\ pending' = pending \cup {0}
    /\ UNCHANGED <<tree, hasPatternOverridesSource, mode, blockEditingModes,
                   writes, caller, threw>>

(***************************************************************************)
(* useInferredLayout and resetContent.                                     *)
(***************************************************************************)

\* const fullAlignments = [ 'full', 'wide', 'left', 'right' ];
fullAlignments == {"full", "wide", "left", "right"}

\* The values of block.attributes.align in the model.
Aligns == fullAlignments \cup {"undefined", "center"}

\* The blocks argument: absent, or a list of blocks given by their align.
BlockLists ==
    {[defined |-> FALSE, list |-> <<>>]} \cup
    {[defined |-> TRUE, list |-> l] : l \in SeqsUpTo(Aligns, MaxLayoutBlocks)}

\* The parentLayout argument, by its type; 'undefined' is no parentLayout.
ParentLayouts == {"undefined", "default", "constrained", "flex"}

\* ! blocks?.length
NoBlocks(blocks) == ~blocks.defined \/ Len(blocks.list) = 0

\* isConstrained && hasFullAlignment ? 'full' : null
inferAlignment(blocks, parentLayout) ==
    LET isConstrained == parentLayout = "constrained"
        hasFullAlignment ==
            \E i \in 1..Len(blocks.list) : blocks.list[i] \in fullAlignments
    IN  IF isConstrained /\ hasFullAlignment THEN "full" ELSE "null"

\* if ( ! alignment ): null is inferred again.
isUninferredFalsy(alignment) == alignment \in {"undefined", "null"}

\* if ( alignment === undefined )
isUninferred(alignment) == alignment = "undefined"

\* One computation of the useMemo callback: the value returned and the new
\* value of the ref.
useInferredLayoutCompute(blocks, parentLayout) ==
    IF NoBlocks(blocks)
    THEN [value |-> [kind |-> "empty", alignment |-> "none", layout |-> "none"],
          ref |-> initialInferredAlignmentRef]
    ELSE LET alignment ==
                 IF isUninferred(initialInferredAlignmentRef)
                 THEN inferAlignment(blocks, parentLayout)
                 ELSE initialInferredAlignmentRef
             layout == IF alignment = "full" THEN parentLayout ELSE "undefined"
         IN  [value |-> [kind |-> "layout", alignment |-> alignment,
                         layout |-> layout],
              ref |-> alignment]

\* One call useInferredLayout( blocks, parentLayout ) in a render: useMemo
\* computes again only when a dependency has changed.
useInferredLayout(blocks, parentLayout) ==
    LET deps == <<blocks, parentLayout>>
        computed == useInferredLayoutCompute(blocks, parentLayout)
    IN  /\ memoDeps' = deps
        /\ IF memoDeps = deps
           THEN UNCHANGED <<memoValue, initialInferredAlignmentRef>>
           ELSE /\ memoValue' = computed.value
                /\ initialInferredAlignmentRef' = computed.ref
        /\ firstInferred' =
              IF firstInferred = "none" /\ blocks.defined /\ Len(blocks.list) > 0
              THEN (IF parentLayout = "constrained"
                       /\ {blocks.list[i] : i \in 1..Len(blocks.list)}
                             \cap {"full", "wide", "left", "right"} # {}
                    THEN "full" ELSE "null")
              ELSE firstInferred

\* The values of attributes.content in the model.
Contents == {"undefined", "c1", "c2"}

\* One call made by resetContent, applied to the content and the changes:
\* __unstableMarkLastChangeAsPersistent() marks the last change, and
\* setAttributes( { content: undefined } ) is a new change.
ApplyCall(st, call) ==
    IF call = "__unstableMarkLastChangeAsPersistent"
    THEN [st EXCEPT !.changes =
            IF @ = <<>> THEN @ ELSE [@ EXCEPT ![Len(@)].persistent = TRUE]]
    ELSE [content |-> "undefined",
          changes |-> Append(st.changes,
                             [content |-> "undefined", persistent |-> FALSE])]

RECURSIVE ApplyCalls(_, _)
ApplyCalls(st, calls) ==
    IF calls = <<>> THEN st
    ELSE ApplyCalls(ApplyCall(st, Head(calls)), Tail(calls))

\* setAttributes is called before the last change is marked persistent.
resetContentCallsSwapped(c) ==
    IF c # "undefined"
    THEN <<"setAttributes", "__unstableMarkLastChangeAsPersistent">>
    ELSE <<>>

\* The calls resetContent makes, in order: if ( content ) { ... }
resetContentCalls(c) ==
    IF c # "undefined"
    THEN <<"__unstableMarkLastChangeAsPersistent", "setAttributes">>
    ELSE <<>>

\* const resetContent = () => { ... }
resetContent ==
    /\ Len(changes) < MaxChanges
    /\ contentBefore' = content
    /\ resetCalls' = <<"resetContent">> \o resetContentCalls(content)
    /\ LET after == ApplyCalls([content |-> content, changes |-> changes],
                               Tail(resetCalls'))
       IN  content' = after.content /\ changes' = after.changes

\* The user overrides content of the pattern: a change that is not yet
\* persistent.
SetContent(c) ==
    /\ Len(changes) < MaxChanges
    /\ c # content
    /\ contentBefore' = content
    /\ content' = c
    /\ changes' = Append(changes, [content |-> c, persistent |-> FALSE])
    /\ resetCalls' = <<>>

EditIdle ==
    /\ initialInferredAlignmentRef = "undefined"
    /\ memoDeps = <<>>
    /\ memoValue = [kind |-> "none", alignment |-> "none", layout |-> "none"]
    /\ firstInferred = "none"

ResetIdle ==
    /\ content = "undefined"
    /\ changes = <<>>
    /\ contentBefore = "undefined"
    /\ resetCalls = <<>>

ResetInit ==
    /\ content \in Contents
    /\ changes = <<>>
    /\ contentBefore = content
    /\ resetCalls = <<>>

(***************************************************************************)
(* The grid item movers.                                                   *)
(***************************************************************************)

\* An absent field of layout or parentLayout.  The numbers the editor stores
\* are positive, and an absent count and a count of 0 are both falsy.
Absent == 0

GridValues == {Absent} \cup 1..MaxGrid

\* layout?.columnStart ?? 1
OrOne(v) == IF v = Absent THEN 1 ELSE v

columnStart == OrOne(gridLayout.columnStart)
rowStart == OrOne(gridLayout.rowStart)
columnSpan == OrOne(gridLayout.columnSpan)
rowSpan == OrOne(gridLayout.rowSpan)
columnEnd == columnStart + columnSpan - 1
rowEnd == rowStart + rowSpan - 1
columnCount == gridParentLayout.columnCount
rowCount == gridParentLayout.rowCount

\* The item lies inside a grid whose counts are defined.
InsideGrid ==
    /\ rowCount # Absent /\ columnCount # Absent
    /\ 1 <= rowStart /\ rowEnd <= rowCount
    /\ 1 <= columnStart /\ columnEnd <= columnCount

\* disabled={ rowStart <= 1 }
upDisabled == rowStart <= 1

\* The down button looks at the first row of the item, not the last.
downDisabledByStart == rowCount # Absent /\ rowStart >= rowCount

\* disabled={ rowCount && rowEnd >= rowCount }
downDisabled == rowCount # Absent /\ rowEnd >= rowCount

\* disabled={ columnStart <= 1 }
leftDisabled == columnStart <= 1

\* disabled={ columnCount && columnEnd >= columnCount }
rightDisabled == columnCount # Absent /\ columnEnd >= columnCount

\* onChange( { [ field ]: value } ): the owner of the item merges the update
\* into its layout.
onChange(field, value) == gridLayout' = [gridLayout EXCEPT ![field] = value]

\* One onClick: onChange, then moveBlocksToPosition to the block position of
\* the cell ( column, row ).
Click(button, field, value, column, row) ==
    /\ value <= MaxGrid
    /\ onChange(field, value)
    /\ movedTo' = <<column, row>>
    /\ gridBefore' = gridLayout
    /\ clicked' = button
    /\ UNCHANGED <<gridParentLayout, startedInside>>

MoveUp ==
    /\ ~upDisabled
    /\ Click("up", "rowStart", rowStart - 1, columnStart, rowStart - 1)

MoveDown ==
    /\ ~downDisabled
    /\ Click("down", "rowStart", rowStart + 1, columnStart, rowStart + 1)

MoveLeft ==
    /\ ~leftDisabled
    /\ Click("left", "columnStart", columnStart - 1, columnStart - 1, rowStart)

MoveRight ==
    /\ ~rightDisabled
    /\ Click("right", "columnStart", columnStart + 1, columnStart + 1, rowStart)

GridIdle ==
    /\ gridLayout = [columnStart |-> Absent, rowStart |-> Absent,
                     columnSpan |-> Absent, rowSpan |-> Absent]
    /\ gridParentLayout = [columnCount |-> Absent, rowCount |-> Absent]
    /\ movedTo = <<>>
    /\ gridBefore = gridLayout
    /\ clicked = "none"
    /\ startedInside = FALSE

GridInit ==
    /\ gridLayout \in [columnStart : GridValues, rowStart : GridValues,
                       columnSpan : GridValues, rowSpan : GridValues]
    /\ gridParentLayout \in [columnCount : GridValues, rowCount : GridValues]
    /\ movedTo = <<>>
    /\ gridBefore = gridLayout
    /\ clicked = "none"
    /\ startedInside = InsideGrid

(***************************************************************************)
(* The background size controls.                                           *)
(***************************************************************************)

\* The values of backgroundSize, backgroundRepeat and backgroundPosition in
\* the model; 'undefined' is an unset value.
SizeValues == {"undefined", "", "cover", "contain", "auto", "50%"}
RepeatValues == {"undefined", "repeat", "no-repeat"}
PositionValues == {"undefined", "50% 0", "25% 75%"}

\* The values the size toggle group passes, and those the width input passes.
ToggleOptions == {"cover", "contain", "auto"}
WidthInputs == {"undefined", "", "50%"}

\* ! v, for the strings of the model
Falsy(v) == v \in {"undefined", ""}

\* a || b
Or(a, b) == IF Falsy(a) THEN b ELSE a

sizeValue == Or(style.backgroundSize, inheritedValue.backgroundSize)
repeatValue == Or(style.backgroundRepeat, inheritedValue.backgroundRepeat)
positionValue == Or(style.backgroundPosition, inheritedValue.backgroundPosition)

currentValueForToggle ==
    IF \/ sizeValue # "undefined" /\ sizeValue # "cover" /\ sizeValue # "contain"
       \/ sizeValue = ""
    THEN "auto"
    ELSE Or(sizeValue, defaultValues)

repeatCheckedValue ==
    ~(\/ repeatValue = "no-repeat"
      \/ currentValueForToggle = "cover" /\ repeatValue = "undefined")

\* Switching to 'cover' keeps the repeat value.
updateBackgroundSizeKeepsRepeat(next) ==
    /\ style' = [style EXCEPT !.backgroundSize = next,
                              !.backgroundPosition =
                                  IF next \in {"cover", "contain"}
                                  THEN "undefined" ELSE positionValue,
                              !.backgroundRepeat =
                                  IF next = "contain" THEN "no-repeat"
                                  ELSE repeatValue]
    /\ styleBefore' = style

\* const updateBackgroundSize = ( next ) => { ... }
updateBackgroundSize(next) ==
    LET repeat1 == IF next = "contain" THEN "no-repeat" ELSE repeatValue
        position1 == IF next = "contain" THEN "undefined" ELSE positionValue
        repeat2 == IF next = "cover" THEN "undefined" ELSE repeat1
        position2 == IF next = "cover" THEN "undefined" ELSE position1
        toTile == currentValueForToggle \in {"cover", "contain"} /\ next = "auto"
        nextRepeat == IF toTile THEN "undefined" ELSE repeat2
        nextPosition == IF toTile /\ style.backgroundImageId
                        THEN "50% 0" ELSE position2
        nextSize == IF Falsy(next) /\ currentValueForToggle = "auto"
                    THEN "auto" ELSE next
    IN  /\ style' = [style EXCEPT !.backgroundPosition = nextPosition,
                                  !.backgroundRepeat = nextRepeat,
                                  !.backgroundSize = nextSize]
        /\ styleBefore' = style

\* disabled={ currentValueForToggle === 'cover' }
repeatDisabled == currentValueForToggle = "cover"

\* disabled={ currentValueForToggle !== 'auto' || ... === undefined }
widthDisabled ==
    currentValueForToggle # "auto" \/ currentValueForToggle = "undefined"

\* const toggleIsRepeated = () => ...
toggleIsRepeated ==
    /\ ~repeatDisabled
    /\ style' = [style EXCEPT !.backgroundRepeat =
                    IF repeatCheckedValue = TRUE THEN "no-repeat" ELSE "repeat"]
    /\ styleBefore' = style
    /\ lastChange' = [control |-> "repeat", next |-> "undefined"]
    /\ UNCHANGED <<inheritedValue, defaultValues>>

\* ToggleGroupControl onChange={ updateBackgroundSize }
SelectSize(next) ==
    /\ updateBackgroundSize(next)
    /\ lastChange' = [control |-> "size", next |-> next]
    /\ UNCHANGED <<inheritedValue, defaultValues>>

\* UnitControl onChange={ updateBackgroundSize }
EnterWidth(next) ==
    /\ ~widthDisabled
    /\ updateBackgroundSize(next)
    /\ lastChange' = [control |-> "width", next |-> next]
    /\ UNCHANGED <<inheritedValue, defaultValues>>

UnsetBackground ==
    [backgroundSize |-> "undefined", backgroundRepeat |-> "undefined",
     backgroundPosition |-> "undefined", backgroundImageId |-> FALSE]

BgIdle ==
    /\ style = UnsetBackground
    /\ inheritedValue = [backgroundSize |-> "undefined",
                         backgroundRepeat |-> "undefined",
                         backgroundPosition |-> "undefined"]
    /\ defaultValues = "undefined"
    /\ styleBefore = style
    /\ lastChange = [control |-> "none", next |-> "undefined"]

\* An unset background, but for the image the controls are shown for.
BgInit ==
    /\ \E id \in BOOLEAN : style = [UnsetBackground EXCEPT !.backgroundImageId = id]
    /\ inheritedValue \in [backgroundSize : SizeValues,
                           backgroundRepeat : RepeatValues,
                           backgroundPosition : PositionValues]
    /\ defaultValues \in {"undefined", "cover"}
    /\ styleBefore = style
    /\ lastChange = [control |-> "none", next |-> "undefined"]

UiIdle == EditIdle /\ ResetIdle /\ GridIdle /\ BgIdle

Init == GuardInit /\ ModeIdle /\ UiIdle

Next ==
    \/ \E t \in Templates : StartRender(t) /\ UNCHANGED <<modeVars, uiVars>>
    \/ ReusableBlockEditRecursionWrapper /\ UNCHANGED <<modeVars, uiVars>>
    \/ ExitProvider /\ UNCHANGED <<modeVars, uiVars>>
    \/ Unmount /\ UNCHANGED <<modeVars, uiVars>>

Spec == Init /\ [][Next]_vars

InitMode == GuardIdle /\ ModeInit /\ UiIdle

NextMode ==
    \/ \E m \in ModeArgs :
          /\ Propagate(m) /\ caller' = "direct" /\ threw' = FALSE
          /\ UNCHANGED <<guardVars, pending, uiVars>>
    \/ /\ SyncEffect /\ caller' = "effect" /\ threw' = FALSE
       /\ UNCHANGED <<guardVars, pending, uiVars>>
    \/ /\ PropagateAbsent /\ caller' = "absent"
       /\ UNCHANGED <<guardVars, pending, uiVars>>

SpecMode == InitMode /\ [][NextMode]_vars

InitSync == GuardIdle /\ SyncInit /\ UiIdle

NextSync ==
    \/ \E p \in PatternBlocks : RunEffect(p) /\ UNCHANGED <<guardVars, uiVars>>
    \/ \E m \in EditModes : ChangeEditingMode(m) /\ UNCHANGED <<guardVars, uiVars>>

SpecSync == InitSync /\ [][NextSync]_vars

InitEdit == GuardIdle /\ ModeIdle /\ EditIdle /\ ResetIdle /\ GridIdle /\ BgIdle

NextEdit ==
    \E blocks \in BlockLists, parentLayout \in ParentLayouts :
       useInferredLayout(blocks, parentLayout)
          /\ UNCHANGED <<guardVars, modeVars, resetVars, gridVars, bgVars>>

SpecEdit == InitEdit /\ [][NextEdit]_vars

InitReset == GuardIdle /\ ModeIdle /\ EditIdle /\ ResetInit /\ GridIdle /\ BgIdle

NextReset ==
    \/ resetContent
          /\ UNCHANGED <<guardVars, modeVars, editVars, gridVars, bgVars>>
    \/ \E c \in Contents :
          SetContent(c)
             /\ UNCHANGED <<guardVars, modeVars, editVars, gridVars, bgVars>>

SpecReset == InitReset /\ [][NextReset]_vars

InitGrid == GuardIdle /\ ModeIdle /\ EditIdle /\ ResetIdle /\ GridInit /\ BgIdle

NextGrid ==
    \/ MoveUp /\ UNCHANGED <<guardVars, modeVars, editVars, resetVars, bgVars>>
    \/ MoveDown /\ UNCHANGED <<guardVars, modeVars, editVars, resetVars, bgVars>>
    \/ MoveLeft /\ UNCHANGED <<guardVars, modeVars, editVars, resetVars, bgVars>>
    \/ MoveRight /\ UNCHANGED <<guardVars, modeVars, editVars, resetVars, bgVars>>

SpecGrid == InitGrid /\ [][NextGrid]_vars

InitBg == GuardIdle /\ ModeIdle /\ EditIdle /\ ResetIdle /\ GridIdle /\ BgInit

NextBg ==
    \/ \E next \in ToggleOptions :
          SelectSize(next)
             /\ UNCHANGED <<guardVars, modeVars, editVars, resetVars, gridVars>>
    \/ \E next \in WidthInputs :
          EnterWidth(next)
             /\ UNCHANGED <<guardVars, modeVars, editVars, resetVars, gridVars>>
    \/ toggleIsRepeated
          /\ UNCHANGED <<guardVars, modeVars, editVars, resetVars, gridVars>>

SpecBg == InitBg /\ [][NextBg]_vars

\* The render runs to completion once started (React renders synchronously);
\* mounting a block and abandoning a render are up to the environment.
FairSpec ==
    /\ Spec
    /\ WF_vars(ReusableBlockEditRecursionWrapper /\ UNCHANGED <<modeVars, uiVars>>)
    /\ WF_vars(ExitProvider /\ UNCHANGED <<modeVars, uiVars>>)

(***************************************************************************)
(* Properties of the recursion guard.  enter(t) is the wrapper's render of *)
(* a pattern block with ref t (true: the provider is mounted and the block *)
(* expanded, false: the recursion warning); exit(t) is the end of the      *)
(* provider's scope.  RenderPath is path.                                  *)
(***************************************************************************)
Events == 1..Len(log)
IsEnter(i, t) == log[i].op = "enter" /\ log[i].id = t
IsExit(i, t) == log[i].op = "exit" /\ log[i].id = t
NoExitBetween(t, i, j) == \A k \in (i + 1)..(j - 1) : ~IsExit(k, t)
NoCallBetween(t, i, j) == \A k \in (i + 1)..(j - 1) : log[k].id # t
EntersTrue(t) == {i \in Events : IsEnter(i, t) /\ log[i].result}
Exits(t) == {i \in Events : IsExit(i, t)}

\* C1: two enter(t) with no exit(t) in between: the second returns false, and
\* the first returns true exactly when t was not on the path; a refused
\* pattern block renders the recursion warning, an accepted one does not.
C1_EnterTwice ==
    /\ \A j \in Events : log[j].op = "enter" =>
          \A i \in 1..(j - 1) :
             (IsEnter(i, log[j].id) /\ NoExitBetween(log[j].id, i, j))
                => /\ ~log[j].result
                   /\ log[i].result <=> (log[i].id \notin log[i].before)
    /\ \A i \in Events : log[i].op = "enter" =>
          /\ (log[i].id \in log[i].before) => log[i].shown = "RecursionWarning"
          /\ log[i].result <=> (log[i].shown # "RecursionWarning")

C1_Witness ==
    \E t \in Templates : \E i, j \in Events :
       /\ i < j /\ IsEnter(i, t) /\ IsEnter(j, t) /\ NoExitBetween(t, i, j)
       /\ log[i].result /\ ~log[j].result
       /\ log[j].shown = "RecursionWarning"

\* C2: enter(t), exit(t), enter(t), starting with t not on the path: both
\* enters return true, and t is not on the path after the exit.
C2_EnterExitEnter ==
    /\ \A j \in Events : log[j].op = "exit" =>
          \A i \in 1..(j - 1) : \A k \in (j + 1)..Len(log) :
             (/\ IsEnter(i, log[j].id) /\ IsEnter(k, log[j].id)
              /\ log[j].id \notin log[i].before
              /\ NoCallBetween(log[j].id, i, j) /\ NoCallBetween(log[j].id, j, k))
                => log[i].result /\ log[k].result /\ log[j].id \notin log[k].before
    /\ (log # <<>> /\ Last(log).op = "exit") => Last(log).id \notin path

C2_Witness ==
    \E t \in Templates : \E i, j, k \in Events :
       /\ i < j /\ j < k
       /\ IsEnter(i, t) /\ IsExit(j, t) /\ IsEnter(k, t)
       /\ t \notin log[i].before
       /\ NoCallBetween(t, i, j) /\ NoCallBetween(t, j, k)
       /\ log[i].result /\ log[k].result

\* Template r contains a pattern block that refers to r itself.
SelfRef(r) ==
    /\ store[r].hasResolved /\ store[r].record
    /\ \E n \in 1..Len(store[r].blocks) : store[r].blocks[n] = r

\* C3: rendering a template r that contains a reference to r: the outer
\* enter(r) is true, every inner enter(r) is false, shows the fallback and is
\* not expanded (the next pattern block rendered is its sibling), exit(r)
\* happens once, and the path is empty when the outer render has completed.
C3_SelfReference ==
    (log # <<>> /\ SelfRef(root)) =>
       /\ IsEnter(1, root) /\ log[1].result /\ log[1].shown = "innerBlocks"
       /\ \A i \in Events \ {1} : IsEnter(i, root) =>
             /\ ~log[i].result
             /\ log[i].shown = "RecursionWarning"
             /\ (i < Len(log) /\ log[i + 1].op = "enter")
                   => log[i + 1].ancestors = log[i].ancestors
       /\ Cardinality(Exits(root)) <= 1
       /\ pc \in {"done", "unmounted"} =>
             /\ Cardinality(Exits(root)) = 1
             /\ IsExit(Len(log), root)
             /\ path = {}
       /\ pc = "done" => \E i \in Events \ {1} : IsEnter(i, root)

C3_Witness ==
    /\ pc = "done" /\ SelfRef(root) /\ store[root].blocks = <<root>>
    /\ Len(log) = 3
    /\ IsEnter(2, root) /\ ~log[2].result
    /\ path = {}

\* C4: an occurrence is refused exactly when its ref is the ref of one of
\* the pattern blocks it is rendered inside (its ancestors in this render).
C4_PathScoped ==
    \A i \in Events : log[i].op = "enter" =>
        (~log[i].result <=> log[i].id \in log[i].ancestors)

\* The same template expanded twice in one render, in sibling branches.
C4_Witness ==
    \E t \in Templates : \E i, j \in Events :
       /\ i < j /\ IsEnter(i, t) /\ IsEnter(j, t)
       /\ log[i].result /\ log[j].result
       /\ log[i].shown = "innerBlocks" /\ log[j].shown = "innerBlocks"

\* C5: every enter that returned true gets exactly one exit of the same id,
\* however the render ends; nothing stays on the path after the render, and
\* the root of a later render is never refused.
C5_ExitOnEveryPath ==
    /\ \A t \in Templates :
          /\ Cardinality(EntersTrue(t)) - Cardinality(Exits(t))
                = (IF t \in StackRefs THEN 1 ELSE 0)
          /\ pc \in {"idle", "done", "unmounted"}
                => Cardinality(EntersTrue(t)) = Cardinality(Exits(t))
    /\ pc \in {"idle", "mount", "done", "unmounted"} => path = {}
    /\ log # <<>> => log[1].result

\* After an abandoned render, a later render of a template has completed.
C5_Witness ==
    /\ prevAbandoned
    /\ pc = "done"
    /\ Len(log) >= 4
    /\ log[1].result /\ log[1].shown = "innerBlocks"
    /\ \E i \in Events : log[i].op = "enter" /\ log[i].shown = "Spinner"
    /\ path = {}

\* The refs on the stack are pairwise different.
DistinctOnStack ==
    \A i, j \in 1..Len(stack) : i # j => stack[i].ref # stack[j].ref

\* C6: a render terminates: every ref is expanded at most once along the
\* render path, the depth is at most the number of templates, and a render
\* that was started ends.
C6_Terminates ==
    /\ [](DistinctOnStack /\ Len(stack) <= Cardinality(Templates))
    /\ (pc = "mount") ~> (pc \in {"done", "unmounted"})

\* A transitive cycle A -> B -> C -> A rendered to its full depth.
C6_Witness ==
    /\ Len(stack) = Cardinality(Templates)
    /\ log # <<>> /\ Last(log).op = "enter" /\ ~Last(log).result
    /\ Last(log).id = root

\* C13: a pattern block that is expanded shows the spinner whenever the
\* store has not resolved, the deletion warning whenever it has resolved with
\* no record, and its inner blocks exactly when it has resolved with a
\* record; pattern blocks are rendered only inside such a pattern block.
C13_StoreOutcomes ==
    \A i \in Events : (log[i].op = "enter" /\ log[i].result) =>
        LET st == store[log[i].id]
        IN  /\ log[i].shown \in {"Spinner", "Warning", "innerBlocks"}
            /\ ~st.hasResolved => log[i].shown = "Spinner"
            /\ (st.hasResolved /\ ~st.record) => log[i].shown = "Warning"
            /\ log[i].shown = "innerBlocks" <=> (st.hasResolved /\ st.record)
            /\ \A a \in log[i].ancestors :
                  store[a].hasResolved /\ store[a].record

\* One render shows a spinner for a pending pattern that has no record and
\* the warning for a missing one, both inside an expanded pattern.
C13_Witness ==
    \E i, j \in Events :
       /\ log[i].op = "enter" /\ log[i].shown = "Spinner"
       /\ ~store[log[i].id].record
       /\ log[j].op = "enter" /\ log[j].shown = "Warning"
       /\ log[1].shown = "innerBlocks"

\* The path after the i-th call of this render pass.
PathAfter(i) == IF i = Len(log) THEN path ELSE log[i + 1].before

\* C14: an enter that returns false leaves the path as it was.
C14_RefusalNoMutation ==
    \A i \in Events : (log[i].op = "enter" /\ ~log[i].result) =>
        PathAfter(i) = log[i].before

\* A refused enter below two nested providers.
C14_Witness ==
    /\ log # <<>>
    /\ Last(log).op = "enter" /\ ~Last(log).result
    /\ Cardinality(Last(log).before) = 2
    /\ path = Last(log).before

(***************************************************************************)
(* Properties of the edit-mode propagation.  propagate is setBlockEditMode *)
(* on the pattern's inner blocks; overridesEnabled=false is the mode       *)
(* 'disabled', overridesEnabled=true with no mode override is no mode      *)
(* ('undefined'), and a mode override is any other mode.  The registry is  *)
(* blockEditingModes.                                                      *)
(***************************************************************************)
RECURSIVE StrictAncestors(_)
StrictAncestors(c) ==
    IF tree[c].parent = 0 THEN {}
    ELSE {tree[c].parent} \cup StrictAncestors(tree[c].parent)

Descendants(c) == {d \in Blocks : c \in StrictAncestors(d)}

IsNestedPattern(c) == tree[c].name = patternBlockName

\* c lies inside a nested pattern block.
UnderNested(c) == \E a \in StrictAncestors(c) : IsNestedPattern(a)

\* C7: with overridesEnabled=false (mode 'disabled') every block at every
\* depth is assigned 'disabled'.
C7_AllDisabled ==
    mode = "disabled" =>
        \A c \in Blocks : blockEditingModes[c] = "disabled"

\* An overridable block and an overridable nested pattern at depth two.
C7_Witness ==
    /\ mode = "disabled"
    /\ \E c, d \in Blocks :
          /\ tree[c].parent = 0 /\ tree[d].parent = c
          /\ ~IsNestedPattern(c)
          /\ isOverridableBlock(d) /\ IsNestedPattern(d)
          /\ blockEditingModes[d] = "disabled"

\* C8: with no mode, a block that is not inside a nested pattern is assigned
\* 'contentOnly' if it is overridable and 'disabled' otherwise.
C8_ByOverridable ==
    mode = "undefined" =>
        \A c \in Blocks : ~UnderNested(c) =>
            blockEditingModes[c] =
                (IF isOverridableBlock(c) THEN "contentOnly" ELSE "disabled")

\* An overridable block below a disabled ordinary container.
C8_Witness ==
    /\ mode = "undefined"
    /\ \E c, d \in Blocks :
          /\ tree[c].parent = 0 /\ tree[d].parent = c
          /\ ~IsNestedPattern(c) /\ ~isOverridableBlock(c)
          /\ isOverridableBlock(d)
          /\ blockEditingModes[c] = "disabled"
          /\ blockEditingModes[d] = "contentOnly"

\* C9 as claimed: with no mode, every overridable nested pattern is assigned
\* 'contentOnly' and everything below it 'disabled'.
C9_Original ==
    mode = "undefined" =>
        \A c \in Blocks : (IsNestedPattern(c) /\ isOverridableBlock(c)) =>
            /\ blockEditingModes[c] = "contentOnly"
            /\ \A d \in Descendants(c) : blockEditingModes[d] = "disabled"

\* C9 (amended): with no mode, an overridable nested pattern is assigned
\* 'contentOnly' if it is not itself inside a nested pattern and 'disabled'
\* if it is, and everything below it is assigned 'disabled', overridable
\* or not.
C9_NestedPattern ==
    mode = "undefined" =>
        \A c \in Blocks : (IsNestedPattern(c) /\ isOverridableBlock(c)) =>
            /\ blockEditingModes[c] =
                  (IF UnderNested(c) THEN "disabled" ELSE "contentOnly")
            /\ \A d \in Descendants(c) : blockEditingModes[d] = "disabled"

\* An overridable nested pattern, and inside it an overridable nested
\* pattern holding an overridable block.
C9_Witness ==
    /\ mode = "undefined"
    /\ \E c, d, e \in Blocks :
          /\ tree[c].parent = 0 /\ tree[d].parent = c /\ tree[e].parent = d
          /\ IsNestedPattern(c) /\ isOverridableBlock(c)
          /\ IsNestedPattern(d) /\ isOverridableBlock(d)
          /\ isOverridableBlock(e)
          /\ blockEditingModes[c] = "contentOnly"
          /\ blockEditingModes[d] = "disabled"
          /\ blockEditingModes[e] = "disabled"

\* A mode override: a mode other than 'disabled' is passed.
IsModeOverride(m) == m \in EditModes \ {"disabled"}

\* C10 as claimed: with a mode override, an overridable block is assigned
\* 'contentOnly' and a block that is not overridable the mode passed.
C10_Original ==
    IsModeOverride(mode) =>
        \A c \in Blocks : ~UnderNested(c) =>
            blockEditingModes[c] =
                (IF isOverridableBlock(c) THEN "contentOnly" ELSE mode)

\* C10 (amended): with a mode override, every block that is not inside a
\* nested pattern is assigned the mode passed, overridable or not, and every
\* block inside a nested pattern is assigned 'disabled'.
C10_ModeOverride ==
    IsModeOverride(mode) =>
        \A c \in Blocks :
            blockEditingModes[c] = (IF UnderNested(c) THEN "disabled" ELSE mode)

\* The mode 'default' passed for an overridable and for another block.
C10_Witness ==
    /\ mode = "default"
    /\ \E c, d \in Blocks :
          /\ ~UnderNested(c) /\ ~UnderNested(d)
          /\ isOverridableBlock(c) /\ ~isOverridableBlock(d)
          /\ blockEditingModes[c] = "default"
          /\ blockEditingModes[d] = "default"

\* The position of block c's setEditMode calls in the last propagation.
WritesOf(c) == {i \in 1..Len(writes) : writes[i].clientId = c}

\* The last setBlockEditMode call returned (it was given a block list).
Returned == caller \in {"direct", "effect"}

\* C11: one propagation calls setEditMode exactly once for every block, and
\* for a block before any of the blocks inside it (a pre-order walk).
C11_PreOrderOnce ==
    Returned =>
        /\ Len(writes) = Len(tree)
        /\ \A c \in Blocks : Cardinality(WritesOf(c)) = 1
        /\ \A c \in Blocks : \A d \in Descendants(c) :
              \A i \in WritesOf(c) : \A j \in WritesOf(d) : i < j
        /\ \A c \in Blocks : \A i \in WritesOf(c) :
              blockEditingModes[c] = writes[i].editMode

\* A block with a block inside it and a later sibling.
C11_Witness ==
    /\ Returned
    /\ Len(tree) = 3
    /\ tree[2].parent = 1 /\ tree[3].parent = 0
    /\ writes[1].clientId = 1 /\ writes[2].clientId = 2 /\ writes[3].clientId = 3

C15_EffectMode ==
    caller = "effect" =>
        /\ mode = "disabled"
              <=> (editingMode = "disabled" \/ ~hasPatternOverridesSource)
        /\ mode \in {"disabled", "undefined"}
        /\ editingMode = "disabled" =>
              \A c \in Blocks : blockEditingModes[c] # "contentOnly"

\* The effect of a disabled pattern with the source registered and an
\* overridable inner block, and the effect of an enabled one.
C15_Witness ==
    /\ caller = "effect"
    /\ hasPatternOverridesSource
    /\ \E c \in Blocks : isOverridableBlock(c) /\ ~UnderNested(c)
    /\ \/ editingMode = "disabled" /\ mode = "disabled"
       \/ editingMode = "contentOnly" /\ mode = "undefined"

\* C16: once no sync effect is pending, every block inside a pattern block
\* nested in a pattern whose overrides are enabled is 'disabled', whatever
\* mode the nested pattern block itself was assigned.
C16_NestedDisabled ==
    (pending = {} /\ syncMode = "undefined") =>
        \A n \in PatternBlocks \ {0} : \A d \in Descendants(n) :
            blockEditingModes[d] = "disabled"

(***************************************************************************)
(* Properties of useInferredLayout and resetContent.                       *)
(***************************************************************************)

\* C17: a call with no blocks returns {} and fixes nothing; a call with
\* blocks returns the alignment that the first call with blocks inferred
\* ('full' iff the parent layout was constrained and some block had a full
\* alignment, else null), whatever the blocks and the parent layout are now.
C17_InitialAlignment ==
    memoDeps # <<>> =>
        IF NoBlocks(memoDeps[1])
        THEN /\ memoValue.kind = "empty"
             /\ firstInferred = "none" => initialInferredAlignmentRef = "undefined"
        ELSE /\ memoValue.kind = "layout"
             /\ memoValue.alignment = firstInferred
             /\ initialInferredAlignmentRef = firstInferred
             /\ firstInferred \in {"full", "null"}

\* null was inferred first, and a later call has a constrained parent and a
\* block aligned wide.
C17_Witness ==
    /\ memoDeps # <<>>
    /\ firstInferred = "null"
    /\ memoDeps[2] = "constrained"
    /\ memoDeps[1].defined /\ Len(memoDeps[1].list) = 2
    /\ memoDeps[1].list[2] = "wide"
    /\ memoValue.alignment = "null"

\* C18: resetContent with content set marks the last change persistent and
\* then sets content to undefined; with no content it calls neither and
\* leaves the attributes as they were.
C18_ResetContent ==
    (resetCalls # <<>>) =>
        IF contentBefore # "undefined"
        THEN /\ resetCalls = <<"resetContent",
                               "__unstableMarkLastChangeAsPersistent",
                               "setAttributes">>
             /\ content = "undefined"
             /\ Last(changes) = [content |-> "undefined", persistent |-> FALSE]
             /\ Len(changes) > 1 => changes[Len(changes) - 1].persistent
        ELSE /\ resetCalls = <<"resetContent">>
             /\ content = contentBefore
             /\ \A i \in 1..Len(changes) :
                   changes[i].content = "undefined" => ~changes[i].persistent

\* A reset after the user has overridden content.
C18_Witness ==
    /\ Len(resetCalls) = 3
    /\ Len(changes) = 2
    /\ changes[1] = [content |-> "c1", persistent |-> TRUE]
    /\ content = "undefined"

(***************************************************************************)
(* Properties of the grid item movers.                                     *)
(***************************************************************************)

\* The rows and columns a layout stands for.
Effective(l) ==
    [columnStart |-> OrOne(l.columnStart), rowStart |-> OrOne(l.rowStart),
     columnSpan |-> OrOne(l.columnSpan), rowSpan |-> OrOne(l.rowSpan)]

\* |a - b|
Distance(a, b) == IF a >= b THEN a - b ELSE b - a

\* C19: an item that starts inside a grid with rowCount and columnCount
\* defined is inside it after every sequence of clicks on enabled movers,
\* and each click changes exactly one of rowStart and columnStart by exactly
\* 1 and leaves the spans unchanged.
C19_StaysInside ==
    /\ startedInside => InsideGrid
    /\ clicked # "none" =>
          LET old == Effective(gridBefore)
              new == Effective(gridLayout)
          IN  /\ new.rowSpan = old.rowSpan /\ new.columnSpan = old.columnSpan
              /\ Distance(new.rowStart, old.rowStart)
                    + Distance(new.columnStart, old.columnStart) = 1

\* An item two rows high has been moved down to the last rows of the grid.
C19_Witness ==
    /\ startedInside
    /\ clicked = "down"
    /\ rowSpan = 2
    /\ rowEnd = rowCount
    /\ downDisabled

(***************************************************************************)
(* Properties of the background size controls.                             *)
(***************************************************************************)

\* The last change was made by updateBackgroundSize( next ).
SizeSetTo(next) ==
    lastChange.control \in {"size", "width"} /\ lastChange.next = next

\* C20: switching the size to 'contain' sets backgroundRepeat to 'no-repeat'
\* and clears backgroundPosition, switching to 'cover' clears both, and in
\* every state reached from an unset background backgroundSize 'cover'
\* implies that backgroundRepeat is unset.
C20_CoverNoRepeat ==
    /\ SizeSetTo("contain") =>
          /\ style.backgroundSize = "contain"
          /\ style.backgroundRepeat = "no-repeat"
          /\ style.backgroundPosition = "undefined"
    /\ SizeSetTo("cover") =>
          /\ style.backgroundSize = "cover"
          /\ style.backgroundRepeat = "undefined"
          /\ style.backgroundPosition = "undefined"
    /\ style.backgroundSize = "cover" => style.backgroundRepeat = "undefined"

\* 'cover' has been selected while backgroundRepeat and backgroundPosition
\* were set.
C20_Witness ==
    /\ SizeSetTo("cover")
    /\ styleBefore.backgroundRepeat = "repeat"
    /\ styleBefore.backgroundPosition = "50% 0"
    /\ style.backgroundSize = "cover"

====
